---- MODULE Spec2Model ----
(***************************************************************************)
(* Geo Blitz front end (src/src/App.jsx): the lookup orchestration of the  *)
(* App component.  The state is the four useState cells (ip, loading,      *)
(* error, result) and the asynchronous invocations of onLookup and         *)
(* onUseMyIP that are suspended at one of their await points.              *)
(*                                                                         *)
(* One action is one synchronous run of handler code: from an event (a     *)
(* click, an input change, the settlement of a promise) to the next await  *)
(* or to the end of the handler.  React applies the state updates of one   *)
(* such run as one batch, so the view is a function of the state between   *)
(* actions.                                                                *)
(*                                                                         *)
(* Addresses are sequences of one-character strings, so that trimming and  *)
(* URL escaping are computed.  Messages and response bodies are strings;   *)
(* JSON.parse and the template string of line 38 are given by tables over  *)
(* the bodies and statuses the model draws from.                           *)
(***************************************************************************)
EXTENDS Integers, Sequences, FiniteSets, TLC

VARIABLES
    ip,        \* useState cell of line 9: the address field
    loading,   \* useState cell of line 10
    error,     \* useState cell of line 11 ("" when unset)
    result,    \* useState cell of line 12 (JsNull when unset)
    calls,     \* the invocations of onLookup / onUseMyIP, by number
    ncalls,    \* how many invocations were started
    writer,    \* history: which invocation last wrote error / result
    last,      \* history: the step that produced the current state
    first      \* history: the first of two runs of onLookup in sequence

vars == <<ip, loading, error, result, calls, ncalls, writer, last, first>>

\* Bound on the number of onLookup / onUseMyIP invocations of one run.
MaxCalls == 3

Calls == 1..MaxCalls

-----------------------------------------------------------------------------
(* Addresses *)

Empty == << >>
Ip8888 == <<"8", ".", "8", ".", "8", ".", "8">>
Ip1111 == <<"1", ".", "1", ".", "1", ".", "1">>
Ip9999 == <<"9", ".", "9", ".", "9", ".", "9">>
Ip2001 == <<"2", "0", "0", "1", ":", "4", "8", "6", "0", ":",
            "4", "8", "6", "0", ":", ":", "8", "8", "8", "8">>
NotAnIp == <<"a", " ", "b">>

\* The labels of the four quick-fill chips.
ChipLabels == {Ip8888, Ip1111, Ip9999, Ip2001}

\* What the user may leave in the input element (e.target.value).
RawInputs == {<<" ">>, <<" ", "a", " ", "b", " ">>}

\* The argument of onLookup: Undefined is onLookup() (line 102), Given(a)
\* is onLookup(a) (line 59).
Undefined == [given |-> FALSE, v |-> Empty]
Given(a) == [given |-> TRUE, v |-> a]

IsSpace(c) == c = " "

\* String.prototype.trim: drops the white space at both ends.
RECURSIVE TrimStart(_)
TrimStart(s) ==
    IF s # Empty /\ IsSpace(Head(s)) THEN TrimStart(Tail(s)) ELSE s

RECURSIVE TrimEnd(_)
TrimEnd(s) ==
    IF s # Empty /\ IsSpace(s[Len(s)])
    THEN TrimEnd(SubSeq(s, 1, Len(s) - 1))
    ELSE s

Trim(s) == TrimEnd(TrimStart(s))

\* encodeURIComponent on the characters addresses are made of: letters,
\* digits and "." are kept, ":" and " " are percent-escaped.
EncodeChar(c) ==
    IF c = ":" THEN <<"%", "3", "A">>
    ELSE IF c = " " THEN <<"%", "2", "0">>
    ELSE <<c>>

RECURSIVE encodeURIComponent(_)
encodeURIComponent(s) ==
    IF s = Empty THEN Empty
    ELSE EncodeChar(Head(s)) \o encodeURIComponent(Tail(s))

\* The request of line 28-29: GET `${API_BASE}/geo?ip=${...}`.
GeoUrl(ipParam) == [to |-> "geo", query |-> encodeURIComponent(ipParam)]

\* The request of line 55: GET https://api64.ipify.org?format=json.
IpifyUrl == [to |-> "ipify", query |-> Empty]

NoUrl == [to |-> "none", query |-> Empty]

-----------------------------------------------------------------------------
(* JSON values and response bodies *)

\* A parsed JSON value: null, false, the number 0, or an object of which
\* the model keeps the members the code reads (error, ip) and the
\* geolocation payload.  A member read from null, false or 0 with ?. is
\* undefined.
JsNull == [kind |-> "null", hasError |-> FALSE, error |-> "",
           hasIp |-> FALSE, ip |-> Empty, country |-> ""]
JsFalse == [JsNull EXCEPT !.kind = "false"]
JsZero == [JsNull EXCEPT !.kind = "zero"]
JsObject(hasError, err, hasIp, addr, country) ==
    [kind |-> "object", hasError |-> hasError, error |-> err,
     hasIp |-> hasIp, ip |-> addr, country |-> country]

BodyEmpty == ""
BodyOops == "oops"
BodyNull == "null"
BodyFalse == "false"
BodyZero == "0"
BodyNoFields == "{}"
BodyRateLimited == "{\"error\":\"rate limited\"}"
BodyEmptyError == "{\"error\":\"\"}"
BodyGeo == "{\"ip\":\"8.8.8.8\",\"country_code\":\"US\"}"
BodyMyIp == "{\"ip\":\"2001:4860:4860::8888\"}"
BodyEmptyIp == "{\"ip\":\"\"}"

\* JSON.parse: the value, or the SyntaxError's message.
ParseOk(v) == [ok |-> TRUE, val |-> v, msg |-> ""]
ParseFail(m) == [ok |-> FALSE, val |-> JsNull, msg |-> m]

JSONparse(text) ==
    CASE text = BodyNull -> ParseOk(JsNull)
      [] text = BodyFalse -> ParseOk(JsFalse)
      [] text = BodyZero -> ParseOk(JsZero)
      [] text = BodyNoFields -> ParseOk(JsObject(FALSE, "", FALSE, Empty, ""))
      [] text = BodyRateLimited ->
            ParseOk(JsObject(TRUE, "rate limited", FALSE, Empty, ""))
      [] text = BodyEmptyError -> ParseOk(JsObject(TRUE, "", FALSE, Empty, ""))
      [] text = BodyGeo -> ParseOk(JsObject(FALSE, "", TRUE, Ip8888, "US"))
      [] text = BodyMyIp -> ParseOk(JsObject(FALSE, "", TRUE, Ip2001, ""))
      [] text = BodyEmptyIp -> ParseOk(JsObject(FALSE, "", TRUE, Empty, ""))
      [] text = BodyEmpty -> ParseFail("Unexpected end of JSON input")
      [] OTHER -> ParseFail("Unexpected token 'o', \"oops\" is not valid JSON")

\* JavaScript truthiness of a JSON value (result &&, line 137; !result,
\* line 140): null, false and 0 are falsy, every object is truthy.
Truthy(v) == v.kind \notin {"null", "false", "zero"}

\* The bodies the geolocation collaborator may answer with, and its statuses.
GeoBodies == {BodyEmpty, BodyOops, BodyNull, BodyFalse, BodyRateLimited,
              BodyEmptyError, BodyGeo}
Statuses == {200, 500}

\* The bodies the detection collaborator may answer with.
IpifyBodies == {BodyOops, BodyNoFields, BodyEmptyIp, BodyMyIp}

\* What a rejected promise carries as e?.message: a message, or nothing
\* (an Error without message, or a thrown value that has none).
NoMessage == ""
Rejections == {"Failed to fetch", NoMessage}

-----------------------------------------------------------------------------
(* The handlers' code, as functions of the state cells *)

PleaseEnter == "Please enter an IP or use 'Use my IP'."
LookupFailed == "Lookup failed"
CouldNotDetermine == "Could not determine your public IP"
CouldNotFetch == "Could not fetch your public IP"

\* The three cells the handlers write, as one record.
Cells == [loading |-> loading, error |-> error, result |-> result]

\* Mutant of Start: the cells are reset only when an error is displayed.
StartAfterErrorOnly(st) ==
    IF st.error # ""
    THEN [st EXCEPT !.error = "", !.result = JsNull, !.loading = TRUE]
    ELSE [st EXCEPT !.loading = TRUE]

\* Lines 20-22 and 50-52: setError(""); setResult(null); setLoading(true).
Start(st) == [st EXCEPT !.error = "", !.result = JsNull, !.loading = TRUE]

\* Lines 43 and 61: e?.message || fallback.
CatchMessage(message, fallback) ==
    IF message # "" THEN message ELSE fallback

\* Lines 42-43 and 60-61: catch (e) { setError(...) }.
Catch(st, message, fallback) ==
    [st EXCEPT !.error = CatchMessage(message, fallback)]

\* Mutant of Finally: the finally block does not clear loading.
FinallyLeavesLoading(st) == st

\* Lines 44-45 and 62-63: finally { setLoading(false) }.
Finally(st) == [st EXCEPT !.loading = FALSE]

\* Line 24: targetIP ?? ip.
IpParam(targetIP, field) == IF targetIP.given THEN targetIP.v ELSE field

\* Line 25: !ipParam.
Falsy(addr) == addr = Empty

\* Line 31: res.ok.
ResOk(status) == status >= 200 /\ status <= 299

\* Line 38: `Request failed (${res.status})`.
RequestFailed(status) ==
    CASE status = 500 -> "Request failed (500)"
      [] OTHER -> "Request failed (200)"

\* Mutant of ErrorMessage: the JSON error field is not looked at.
ErrorMessageRawText(text, status) ==
    IF text # "" THEN text ELSE RequestFailed(status)

\* Lines 33-38: the message of the Error thrown for a non-2xx response.
ErrorMessage(text, status) ==
    LET e == JSONparse(text)
        msg == IF e.ok /\ e.val.hasError /\ e.val.error # ""
               THEN e.val.error
               ELSE text
    IN  IF msg # "" THEN msg ELSE RequestFailed(status)

\* Lines 31-40: whether the code after `await res.text()` throws.
TextThrows(status, text) == ~ResOk(status) \/ ~JSONparse(text).ok

\* Mutant of OnText: a 2xx body that does not parse is swallowed.
OnTextSwallowsSyntaxError(st, status, text) ==
    IF ~ResOk(status)
    THEN Finally(Catch(st, ErrorMessage(text, status), LookupFailed))
    ELSE Finally([st EXCEPT !.result = JSONparse(text).val])

\* Lines 30-46: onLookup from the settlement of res.text() to its end.
OnText(st, status, text) ==
    IF ~ResOk(status)
    THEN Finally(Catch(st, ErrorMessage(text, status), LookupFailed))
    ELSE IF ~JSONparse(text).ok
    THEN Finally(Catch(st, JSONparse(text).msg, LookupFailed))
    ELSE Finally([st EXCEPT !.result = JSONparse(text).val])

\* Lines 29-30 and 42-46: onLookup when fetch() or res.text() rejects.
OnLookupRejected(st, message) == Finally(Catch(st, message, LookupFailed))

\* Mutant of OnLookupSync: the check of line 25 is missing.
OnLookupSyncUnchecked(st, targetIP, field) ==
    [st |-> Start(st), issued |-> TRUE,
     url |-> GeoUrl(IpParam(targetIP, field))]

\* Lines 20-29: onLookup from its call to its first await, or to its end
\* when the address is empty (the throw of line 26 is caught at line 42).
OnLookupSync(st, targetIP, field) ==
    LET ipParam == IpParam(targetIP, field)
    IN  IF Falsy(ipParam)
        THEN [st |-> Finally(Catch(Start(st), PleaseEnter, LookupFailed)),
              issued |-> FALSE, url |-> NoUrl]
        ELSE [st |-> Start(st), issued |-> TRUE, url |-> GeoUrl(ipParam)]

\* Line 56: my?.ip (undefined and "" are both falsy at line 57).
MyIp(my) == IF my.kind = "object" /\ my.hasIp THEN my.ip ELSE Empty

\* Mutant of NoUsableIp: the check of line 57 is missing.
NoUsableIpUnchecked(myIP) == FALSE

\* Line 57: !myIP.
NoUsableIp(myIP) == Falsy(myIP)

\* Mutant of LookupArgument: onLookup() is called without the address.
LookupArgumentOmitted(myIP) == Undefined

\* Line 59: the argument onUseMyIP passes to onLookup.
LookupArgument(myIP) == Given(myIP)

\* Mutant of OnDetectRejected: the fallback text of onLookup's catch block.
OnDetectRejectedLookupFallback(st, message) ==
    Finally(Catch(st, message, LookupFailed))

\* Lines 55 and 60-64: onUseMyIP when fetch() or r.json() rejects.
OnDetectRejected(st, message) == Finally(Catch(st, message, CouldNotFetch))

-----------------------------------------------------------------------------
(* The validator (lines 14-17 and 270-278) *)

\* Regular expressions, as far as lines 272 and 277 use them: a character
\* class, a sequence, an alternation and a bounded repetition {min,max}.
Chr(set) == [t |-> "chr", set |-> set, parts |-> << >>, min |-> 1, max |-> 1]
Cat(parts) == [t |-> "seq", set |-> {}, parts |-> parts, min |-> 1, max |-> 1]
Alt(parts) == [t |-> "alt", set |-> {}, parts |-> parts, min |-> 1, max |-> 1]
Rep(r, min, max) ==
    [t |-> "rep", set |-> {}, parts |-> <<r>>, min |-> min, max |-> max]
Opt(r) == Rep(r, 0, 1)

\* Ends(r, s, from): the positions of s where a match of r can end when it
\* starts at one of the positions in from (a position is the number of
\* characters before it).
RECURSIVE Ends(_, _, _), EndsSeq(_, _, _, _), EndsRep(_, _, _, _)
Ends(r, s, from) ==
    CASE r.t = "chr" ->
            {p + 1 : p \in {q \in from : q < Len(s) /\ s[q + 1] \in r.set}}
      [] r.t = "seq" -> EndsSeq(r.parts, 1, s, from)
      [] r.t = "alt" ->
            UNION {Ends(r.parts[k], s, from) : k \in 1..Len(r.parts)}
      [] r.t = "rep" -> EndsRep(r, 0, s, from)

EndsSeq(parts, k, s, from) ==
    IF k > Len(parts) THEN from
    ELSE EndsSeq(parts, k + 1, s, Ends(parts[k], s, from))

\* from: the positions reached after n repetitions.
EndsRep(r, n, s, from) ==
    (IF n >= r.min THEN from ELSE {})
    \cup (IF n < r.max /\ from # {}
          THEN EndsRep(r, n + 1, s, Ends(r.parts[1], s, from))
          ELSE {})

\* regex.test(s) for a regex anchored with ^ and $.
Test(regex, s) == Len(s) \in Ends(regex, s, {0})

Digit == {"0", "1", "2", "3", "4", "5", "6", "7", "8", "9"}
ZeroToFive == {"0", "1", "2", "3", "4", "5"}
ZeroToFour == {"0", "1", "2", "3", "4"}
HexDigit == Digit \cup {"a", "b", "c", "d", "e", "f"}
                  \cup {"A", "B", "C", "D", "E", "F"}

\* Line 272: (25[0-5]|2[0-4]\d|1?\d?\d).
Octet ==
    Alt(<<Cat(<<Chr({"2"}), Chr({"5"}), Chr(ZeroToFive)>>),
          Cat(<<Chr({"2"}), Chr(ZeroToFour), Chr(Digit)>>),
          Cat(<<Opt(Chr({"1"})), Opt(Chr(Digit)), Chr(Digit)>>)>>)

\* Line 272: ^(octet)(\.(octet)){3}$.
IPv4Regex == Cat(<<Octet, Rep(Cat(<<Chr({"."}), Octet>>), 3, 3)>>)

\* Lines 270-273.
isIPv4(s) == Test(IPv4Regex, s)

\* Line 277: [0-9A-Fa-f]{1,4}, alone, followed by a colon, and after one.
Hex4 == Rep(Chr(HexDigit), 1, 4)
Colon == Chr({":"})
Hex4Colon == Cat(<<Hex4, Colon>>)
ColonHex4 == Cat(<<Colon, Hex4>>)

\* Line 277: the nine alternatives, in the order of the source.
IPv6Regex ==
    Alt(<<Cat(<<Rep(Hex4Colon, 7, 7), Hex4>>),
          Cat(<<Rep(Hex4Colon, 1, 7), Colon>>),
          Cat(<<Colon, Rep(Hex4Colon, 1, 7)>>),
          Cat(<<Rep(Hex4Colon, 1, 6), Colon, Hex4>>),
          Cat(<<Rep(Hex4Colon, 1, 5), Rep(ColonHex4, 1, 2)>>),
          Cat(<<Rep(Hex4Colon, 1, 4), Rep(ColonHex4, 1, 3)>>),
          Cat(<<Rep(Hex4Colon, 1, 3), Rep(ColonHex4, 1, 4)>>),
          Cat(<<Rep(Hex4Colon, 1, 2), Rep(ColonHex4, 1, 5)>>),
          Cat(<<Hex4, Colon, Rep(ColonHex4, 1, 6)>>)>>)

\* Lines 274-278.
isIPv6(s) == Test(IPv6Regex, s)

\* Lines 14-17: the useMemo over ip.
isLikelyValidIP == IF ip = Empty THEN FALSE ELSE isIPv4(ip) \/ isIPv6(ip)

\* Line 95: the hint under the input.
ShowHint == ip # Empty /\ ~isLikelyValidIP

-----------------------------------------------------------------------------
(* The view *)

\* Lines 129-145: the four conditional blocks of the result section.
\* Line 130: the loading skeleton.
ShowLoading == loading

\* Mutant of ShowError: the error panel's condition leaves out `!loading`.
ShowErrorWhileLoading == error # ""

\* Lines 131-136: the error panel.
ShowError == ~loading /\ error # ""

\* Lines 137-139: the result panel.
ShowResult == ~loading /\ error = "" /\ Truthy(result)

\* Lines 140-144: the prompt shown when there is nothing else to show.
ShowEmpty == ~loading /\ error = "" /\ ~Truthy(result)

\* Mutant of LookupDisabled: the button waits for an address that
\* validates.
LookupDisabledUnlessValid == loading \/ ~isLikelyValidIP

\* Line 103: disabled={loading || (!ip && !isLikelyValidIP)}.
LookupDisabled == loading \/ (ip = Empty /\ ~isLikelyValidIP)

\* Mutant of UseMyIPDisabled: the button stays enabled while loading.
UseMyIPNeverDisabled == FALSE

\* Line 112: disabled={loading}.
UseMyIPDisabled == loading

-----------------------------------------------------------------------------
(* The invocations and the steps *)

\* An invocation: which handler, where it is suspended (pc: the promise it
\* awaits) and the status of the response whose body it awaits.  alone,
\* geoReqs and ipifyReqs are history: whether no other invocation was in
\* flight while this one was, and the requests it issued to each
\* collaborator.
NoCall ==
    [op |-> "none", pc |-> "idle", status |-> 0,
     alone |-> TRUE, geoReqs |-> 0, ipifyReqs |-> 0]

InFlight(c) == calls[c].pc \in {"fetch", "text", "detect", "json"}

NoneInFlight == \A c \in Calls : ~InFlight(c)

\* The last step: its kind, the invocation it belongs to, the argument
\* onLookup was called with, the status and the body (or the rejection's
\* message) it handled, the request it issued and the address field before
\* it (for an edit of the field, whose whole effect is the new address, the
\* address after it).
Event(kind, id, arg, status, body, url, prevIp) ==
    [kind |-> kind, id |-> id, arg |-> arg, status |-> status,
     body |-> body, url |-> url, prevIp |-> prevIp]

\* The record of a first run of onLookup, taken when the second one is
\* invoked: how many of the two runs were started, the address the first
\* looked up, the response it got and the cells it ended with.
NoSnapshot ==
    [runs |-> 0, address |-> Empty,
     response |-> [kind |-> "init", status |-> 0, body |-> ""],
     ip |-> Empty,
     cells |-> [loading |-> FALSE, error |-> "", result |-> JsNull]]

Init ==
    /\ ip = Empty
    /\ loading = FALSE
    /\ error = ""
    /\ result = JsNull
    /\ calls = [c \in Calls |-> NoCall]
    /\ ncalls = 0
    /\ writer = [error |-> 0, result |-> 0]
    /\ last = Event("init", 0, Undefined, 0, "", NoUrl, Empty)
    /\ first = NoSnapshot

SetCells(st) ==
    /\ loading' = st.loading
    /\ error' = st.error
    /\ result' = st.result

\* An invocation that starts while others are in flight overlaps them
\* (also one that ends in its first step: it wrote the cells they share).
Overlapped(c, rec) ==
    [d \in Calls |->
        IF d = c THEN rec
        ELSE IF InFlight(d) THEN [calls[d] EXCEPT !.alone = FALSE]
        ELSE calls[d]]

\* Mutant of Finished: an invocation that issued one geolocation request
\* issues it once more instead of ending.
FinishedRetriesOnce(c) ==
    IF calls[c].geoReqs = 1
    THEN [calls[c] EXCEPT !.pc = "fetch", !.status = 0, !.geoReqs = 2]
    ELSE [calls[c] EXCEPT !.pc = "done", !.status = 0]

Finished(c) == [calls[c] EXCEPT !.pc = "done", !.status = 0]

\* Lines 44-46: onLookup ends and its promise resolves.  An onUseMyIP
\* invocation that awaits it (line 59) resumes in a later microtask, after
\* the promise callbacks that were queued before it.
LookupEnded(c) ==
    IF calls[c].op = "useMyIP"
    THEN [calls[c] EXCEPT !.pc = "resume", !.status = 0]
    ELSE Finished(c)

\* An onUseMyIP invocation is about to resume after its onLookup: until it
\* has, no event of the user is delivered (events are tasks, and the
\* microtasks run first).
Resuming(c) == calls[c].pc = "resume"
NoneResuming == \A c \in Calls : ~Resuming(c)

\* Line 87: onChange={(e) => setIp(e.target.value.trim())}.
TypeInput(raw) ==
    /\ NoneResuming
    /\ ip' = Trim(raw)
    /\ last' = Event("input", 0, Undefined, 0, "", NoUrl, ip')
    /\ UNCHANGED <<loading, error, result, calls, ncalls, writer>>

\* Mutant of QuickChip: choosing a preset also dismisses the error.
QuickChipClearsError(label) ==
    /\ NoneResuming
    /\ ip' = label
    /\ error' = ""
    /\ last' = Event("chip", 0, Undefined, 0, "", NoUrl, ip')
    /\ UNCHANGED <<loading, result, calls, ncalls, writer>>

\* Lines 122-125 and 261: a quick-fill chip calls setIp(label).
QuickChip(label) ==
    /\ NoneResuming
    /\ ip' = label
    /\ last' = Event("chip", 0, Undefined, 0, "", NoUrl, ip')
    /\ UNCHANGED <<loading, error, result, calls, ncalls, writer>>

\* Mutant of Lookup: onLookup does not dismiss the error of the previous
\* invocation (setError("") of line 20 is missing).
LookupKeepsError(targetIP) ==
    /\ ncalls < MaxCalls
    /\ NoneResuming
    /\ LET c == ncalls + 1
           r == OnLookupSync(Cells, targetIP, ip)
           rec == [NoCall EXCEPT !.op = "lookup",
                                 !.pc = IF r.issued THEN "fetch" ELSE "done",
                                 !.alone = NoneInFlight,
                                 !.geoReqs = IF r.issued THEN 1 ELSE 0]
       IN  /\ SetCells(IF r.issued THEN [r.st EXCEPT !.error = error]
                       ELSE r.st)
           /\ calls' = Overlapped(c, rec)
           /\ ncalls' = c
           /\ writer' = [error |-> IF r.issued THEN 0 ELSE c, result |-> 0]
           /\ last' = Event(IF r.issued THEN "lookupIssued" ELSE "lookupEmpty",
                            c, targetIP, 0, "", r.url, ip)
    /\ UNCHANGED ip

\* Lines 19-29: onLookup(targetIP) is invoked and runs to its first await,
\* or to its end when the address is empty.
Lookup(targetIP) ==
    /\ ncalls < MaxCalls
    /\ NoneResuming
    /\ LET c == ncalls + 1
           r == OnLookupSync(Cells, targetIP, ip)
           rec == [NoCall EXCEPT !.op = "lookup",
                                 !.pc = IF r.issued THEN "fetch" ELSE "done",
                                 !.alone = NoneInFlight,
                                 !.geoReqs = IF r.issued THEN 1 ELSE 0]
       IN  /\ SetCells(r.st)
           /\ calls' = Overlapped(c, rec)
           /\ ncalls' = c
           /\ writer' = [error |-> IF r.issued THEN 0 ELSE c, result |-> 0]
           /\ last' = Event(IF r.issued THEN "lookupIssued" ELSE "lookupEmpty",
                            c, targetIP, 0, "", r.url, ip)
    /\ UNCHANGED ip

\* Mutant of UseMyIP: onUseMyIP does not clear the result of the previous
\* invocation (setResult(null) of line 51 is missing).
UseMyIPKeepsResult ==
    /\ ncalls < MaxCalls
    /\ NoneResuming
    /\ LET c == ncalls + 1
           rec == [NoCall EXCEPT !.op = "useMyIP", !.pc = "detect",
                                 !.alone = NoneInFlight, !.ipifyReqs = 1]
       IN  /\ SetCells([Start(Cells) EXCEPT !.result = result])
           /\ calls' = Overlapped(c, rec)
           /\ ncalls' = c
           /\ writer' = [error |-> 0, result |-> 0]
           /\ last' = Event("useMyIP", c, Undefined, 0, "", IpifyUrl, ip)
    /\ UNCHANGED ip

\* Lines 49-55: onUseMyIP is invoked and runs to its await of fetch().
UseMyIP ==
    /\ ncalls < MaxCalls
    /\ NoneResuming
    /\ LET c == ncalls + 1
           rec == [NoCall EXCEPT !.op = "useMyIP", !.pc = "detect",
                                 !.alone = NoneInFlight, !.ipifyReqs = 1]
       IN  /\ SetCells(Start(Cells))
           /\ calls' = Overlapped(c, rec)
           /\ ncalls' = c
           /\ writer' = [error |-> 0, result |-> 0]
           /\ last' = Event("useMyIP", c, Undefined, 0, "", IpifyUrl, ip)
    /\ UNCHANGED ip

\* Line 29: fetch() rejects (no response); lines 42-46 run.
FetchRejects(c, message) ==
    /\ calls[c].pc = "fetch"
    /\ SetCells(OnLookupRejected(Cells, message))
    /\ calls' = [calls EXCEPT ![c] = LookupEnded(c)]
    /\ writer' = [writer EXCEPT !.error = c]
    /\ last' = Event("fetchRejected", c, Undefined, 0, message, NoUrl, ip)
    /\ UNCHANGED <<ip, ncalls>>

\* Line 29: fetch() resolves with a response; line 30 awaits its body.
FetchResponds(c, status) ==
    /\ calls[c].pc = "fetch"
    /\ calls' = [calls EXCEPT ![c].pc = "text", ![c].status = status]
    /\ last' = Event("fetchResponded", c, Undefined, status, "", NoUrl, ip)
    /\ UNCHANGED <<ip, loading, error, result, ncalls, writer>>

\* Line 30: res.text() rejects; lines 42-46 run.
TextRejects(c, message) ==
    /\ calls[c].pc = "text"
    /\ SetCells(OnLookupRejected(Cells, message))
    /\ calls' = [calls EXCEPT ![c] = LookupEnded(c)]
    /\ writer' = [writer EXCEPT !.error = c]
    /\ last' = Event("textRejected", c, Undefined, calls[c].status,
                     message, NoUrl, ip)
    /\ UNCHANGED <<ip, ncalls>>

\* Mutant of TextSettles: a successful lookup writes the address of its
\* result into the field.
TextSettlesWritesField(c, text) ==
    /\ calls[c].pc = "text"
    /\ SetCells(OnText(Cells, calls[c].status, text))
    /\ calls' = [calls EXCEPT ![c] = LookupEnded(c)]
    /\ writer' = IF TextThrows(calls[c].status, text)
                 THEN [writer EXCEPT !.error = c]
                 ELSE [writer EXCEPT !.result = c]
    /\ last' = Event("textSettled", c, Undefined, calls[c].status,
                     text, NoUrl, ip)
    /\ ip' = IF ~TextThrows(calls[c].status, text) /\ JSONparse(text).val.hasIp
             THEN JSONparse(text).val.ip
             ELSE ip
    /\ UNCHANGED ncalls

\* Lines 30-46: res.text() resolves and onLookup runs to its end.
TextSettles(c, text) ==
    /\ calls[c].pc = "text"
    /\ SetCells(OnText(Cells, calls[c].status, text))
    /\ calls' = [calls EXCEPT ![c] = LookupEnded(c)]
    /\ writer' = IF TextThrows(calls[c].status, text)
                 THEN [writer EXCEPT !.error = c]
                 ELSE [writer EXCEPT !.result = c]
    /\ last' = Event("textSettled", c, Undefined, calls[c].status,
                     text, NoUrl, ip)
    /\ UNCHANGED <<ip, ncalls>>

\* Line 55: the detection fetch() rejects; lines 60-64 run.
DetectRejects(c, message) ==
    /\ calls[c].pc = "detect"
    /\ SetCells(OnDetectRejected(Cells, message))
    /\ calls' = [calls EXCEPT ![c] = Finished(c)]
    /\ writer' = [writer EXCEPT !.error = c]
    /\ last' = Event("detectRejected", c, Undefined, 0, message, NoUrl, ip)
    /\ UNCHANGED <<ip, ncalls>>

\* Line 55: the detection fetch() resolves; .then(r => r.json()) reads the
\* body (the status of the response is not looked at).
DetectResponds(c) ==
    /\ calls[c].pc = "detect"
    /\ calls' = [calls EXCEPT ![c].pc = "json"]
    /\ last' = Event("detectResponded", c, Undefined, 0, "", NoUrl, ip)
    /\ UNCHANGED <<ip, loading, error, result, ncalls, writer>>

\* Line 55: r.json() rejects because the body cannot be read.
JsonRejects(c, message) ==
    /\ calls[c].pc = "json"
    /\ SetCells(OnDetectRejected(Cells, message))
    /\ calls' = [calls EXCEPT ![c] = Finished(c)]
    /\ writer' = [writer EXCEPT !.error = c]
    /\ last' = Event("jsonRejected", c, Undefined, 0, message, NoUrl, ip)
    /\ UNCHANGED <<ip, ncalls>>

\* Lines 55-59: r.json() settles with the body `text`: a SyntaxError when
\* it does not parse (lines 60-64), else lines 56-59: the throw of line 57,
\* or setIp(myIP) and the call of onLookup(myIP), which runs to its await
\* (or to its end, after which onUseMyIP resumes).  onLookup's closure
\* holds the address field for `ip`, which line 24 reads only without an
\* argument.
JsonSettles(c, text) ==
    /\ calls[c].pc = "json"
    /\ LET my == JSONparse(text)
           myIP == MyIp(my.val)
           r == OnLookupSync(Cells, LookupArgument(myIP), ip)
           issues == my.ok /\ ~NoUsableIp(myIP) /\ r.issued
           called == my.ok /\ ~NoUsableIp(myIP)
       IN  /\ last' = Event("jsonSettled", c,
                            IF called THEN LookupArgument(myIP)
                            ELSE Undefined,
                            0, text, IF issues THEN r.url ELSE NoUrl, ip)
           /\ \/ /\ ~my.ok
                 /\ SetCells(OnDetectRejected(Cells, my.msg))
                 /\ calls' = [calls EXCEPT ![c] = Finished(c)]
                 /\ writer' = [writer EXCEPT !.error = c]
                 /\ UNCHANGED ip
              \/ /\ my.ok /\ NoUsableIp(myIP)
                 /\ SetCells(OnDetectRejected(Cells, CouldNotDetermine))
                 /\ calls' = [calls EXCEPT ![c] = Finished(c)]
                 /\ writer' = [writer EXCEPT !.error = c]
                 /\ UNCHANGED ip
              \/ /\ my.ok /\ ~NoUsableIp(myIP)
                 /\ ip' = myIP
                 /\ SetCells(r.st)
                 /\ calls' = IF r.issued
                             THEN [calls EXCEPT ![c].pc = "fetch",
                                                ![c].geoReqs = @ + 1]
                             ELSE [calls EXCEPT ![c] = LookupEnded(c)]
                 /\ writer' = [error |-> IF r.issued THEN 0 ELSE c,
                               result |-> 0]
    /\ UNCHANGED ncalls

\* Lines 59 and 62-64: the await of onLookup(myIP) is over; onUseMyIP
\* resumes and its finally block runs setLoading(false).
Resumes(c) ==
    /\ Resuming(c)
    /\ SetCells(Finally(Cells))
    /\ calls' = [calls EXCEPT ![c] = Finished(c)]
    /\ last' = Event("resumed", c, Undefined, 0, "", NoUrl, ip)
    /\ UNCHANGED <<ip, ncalls, writer>>

\* Lines 100-103: a click on the Lookup button, which a disabled button
\* does not deliver; onLookup is called without an argument.
ClickLookup == ~LookupDisabled /\ Lookup(Undefined)

\* Lines 109-112: a click on the Use my IP button, which a disabled button
\* does not deliver.
ClickUseMyIP == ~UseMyIPDisabled /\ UseMyIP

\* The page: the handlers run only from the events of its elements (the
\* input, the two buttons, the chips) and from the settlement of the
\* requests they issued.
Next ==
    \/ \E raw \in RawInputs : TypeInput(raw) /\ UNCHANGED first
    \/ \E label \in ChipLabels : QuickChip(label) /\ UNCHANGED first
    \/ ClickLookup /\ UNCHANGED first
    \/ ClickUseMyIP /\ UNCHANGED first
    \/ \E c \in Calls, message \in Rejections :
           FetchRejects(c, message) /\ UNCHANGED first
    \/ \E c \in Calls, status \in Statuses :
           FetchResponds(c, status) /\ UNCHANGED first
    \/ \E c \in Calls, message \in Rejections :
           TextRejects(c, message) /\ UNCHANGED first
    \/ \E c \in Calls, text \in GeoBodies :
           TextSettles(c, text) /\ UNCHANGED first
    \/ \E c \in Calls, message \in Rejections :
           DetectRejects(c, message) /\ UNCHANGED first
    \/ \E c \in Calls : DetectResponds(c) /\ UNCHANGED first
    \/ \E c \in Calls, message \in Rejections :
           JsonRejects(c, message) /\ UNCHANGED first
    \/ \E c \in Calls, text \in IpifyBodies :
           JsonSettles(c, text) /\ UNCHANGED first
    \/ \E c \in Calls : Resumes(c) /\ UNCHANGED first

Spec == Init /\ [][Next]_vars

\* A request in flight settles: the premise of the claims about what
\* happens once requests settle.
Settle ==
    \E c \in Calls :
        \/ \E message \in Rejections :
               FetchRejects(c, message) /\ UNCHANGED first
        \/ \E status \in Statuses : FetchResponds(c, status) /\ UNCHANGED first
        \/ \E message \in Rejections :
               TextRejects(c, message) /\ UNCHANGED first
        \/ \E text \in GeoBodies : TextSettles(c, text) /\ UNCHANGED first
        \/ \E message \in Rejections :
               DetectRejects(c, message) /\ UNCHANGED first
        \/ DetectResponds(c) /\ UNCHANGED first
        \/ \E message \in Rejections :
               JsonRejects(c, message) /\ UNCHANGED first
        \/ \E text \in IpifyBodies : JsonSettles(c, text) /\ UNCHANGED first
        \/ Resumes(c) /\ UNCHANGED first

\* Every request in flight eventually settles (there is no timeout and no
\* cancellation: the code relies on the collaborators answering).
FairSpec == Spec /\ WF_vars(Settle)

-----------------------------------------------------------------------------
(* Addresses typed into the field, for the validator *)

\* Bound on the number of groups of a typed address.
MaxGroups == 9

\* groups joined by sep, as typed.
RECURSIVE Join(_, _)
Join(groups, sep) ==
    IF groups = << >> THEN << >>
    ELSE IF Len(groups) = 1 THEN groups[1]
    ELSE groups[1] \o <<sep>> \o Join(Tail(groups), sep)

Repeat(g, n) == [i \in 1..n |-> g]

\* Dotted addresses: n times the same group, and four groups of which one
\* differs from the other three.
V4Groups ==
    {<<"0">>, <<"7">>, <<"0", "1">>, <<"9", "9">>,
     <<"0", "0", "1">>, <<"0", "9", "9">>, <<"1", "0", "0">>,
     <<"1", "9", "9">>, <<"2", "4", "9">>, <<"2", "5", "5">>,
     <<"2", "5", "6">>, <<"3", "0", "0">>, <<"0", "2", "5", "5">>,
     <<"a">>}
V4Inputs ==
    {Join(Repeat(g, n), ".") : g \in V4Groups, n \in 1..MaxGroups}
    \cup {Join([i \in 1..4 |-> IF i = p THEN g ELSE <<"1", "0">>], ".") :
            g \in V4Groups, p \in 1..4}

\* Colon addresses: n times the same group, and `::` with b groups before
\* it and a groups after it.
V6Groups ==
    {<<"1">>, <<"2", "0", "0", "1">>, <<"F", "f", "a", "0">>,
     <<"1", "2", "3", "4", "5">>, <<"g">>}
V6Inputs ==
    {Join(Repeat(g, n), ":") : g \in V6Groups, n \in 1..MaxGroups}
    \cup {Join(Repeat(g, b), ":") \o <<":", ":">> \o Join(Repeat(g, a), ":") :
            g \in V6Groups,
            b \in 0..MaxGroups, a \in 0..MaxGroups}

\* Lines 84-94: text is typed or pasted into the field; the validator and
\* the hint follow the field (lines 14-17 and 95).
ValidatorNext ==
    \/ \E raw \in V4Inputs : TypeInput(raw) /\ UNCHANGED first
    \/ \E raw \in V6Inputs : TypeInput(raw) /\ UNCHANGED first

ValidatorSpec == Init /\ [][ValidatorNext]_vars

-----------------------------------------------------------------------------
(* The result section over every combination of the cells *)

\* Values of the error cell: empty, and messages the handlers store.
ErrorValues ==
    {"", PleaseEnter, LookupFailed, CouldNotDetermine, CouldNotFetch}

\* Values of the result cell: null and what JSON.parse returns for a 2xx
\* body (line 40), falsy values included.
ResultValues ==
    {JSONparse(text).val :
        text \in {BodyNull, BodyFalse, BodyZero, BodyNoFields,
                  BodyRateLimited, BodyGeo}}

\* Lines 9-12: the cells, in every combination of their values.
ViewInit ==
    /\ ip = Empty
    /\ loading \in BOOLEAN
    /\ error \in ErrorValues
    /\ result \in ResultValues
    /\ calls = [c \in Calls |-> NoCall]
    /\ ncalls = 0
    /\ writer = [error |-> 0, result |-> 0]
    /\ last = Event("init", 0, Undefined, 0, "", NoUrl, Empty)
    /\ first = NoSnapshot

\* Lines 84-94 and 121-126: an edit of the field renders the page again,
\* the result section (lines 129-145) from the same cells.
ViewNext ==
    \/ \E raw \in RawInputs : TypeInput(raw) /\ UNCHANGED first
    \/ \E label \in ChipLabels : QuickChip(label) /\ UNCHANGED first

ViewSpec == ViewInit /\ [][ViewNext]_vars

-----------------------------------------------------------------------------
(* Two runs of onLookup in sequence *)

\* What the last step handled: the collaborator's response as the
\* invocation saw it.
LastResponse ==
    [kind |-> last.kind, status |-> last.status, body |-> last.body]

\* The session before the first run: no request in flight, and any
\* address, error and result earlier invocations can have left.
IdemInit ==
    /\ ip \in {Empty, Ip8888}
    /\ loading = FALSE
    /\ error \in {"", "Lookup failed"}
    /\ result \in {JsNull, JSONparse(BodyGeo).val}
    /\ calls = [c \in Calls |-> NoCall]
    /\ ncalls = 0
    /\ writer = [error |-> 0, result |-> 0]
    /\ last = Event("init", 0, Undefined, 0, "", NoUrl, Empty)
    /\ first = NoSnapshot

\* Lines 19-29: the first run of onLookup is invoked.  The handler is
\* called as line 102 calls it, without an argument, in every state of the
\* session (also with an empty field, where the button is disabled).
FirstLookup(targetIP) ==
    /\ ncalls = 0
    /\ Lookup(targetIP)
    /\ first' = [NoSnapshot EXCEPT !.runs = 1,
                                   !.address = IpParam(targetIP, ip)]

\* Lines 19-29: once the first run has ended, onLookup is invoked again on
\* the same address.
SecondLookup(targetIP) ==
    /\ ncalls = 1
    /\ NoneInFlight
    /\ IpParam(targetIP, ip) = first.address
    /\ Lookup(targetIP)
    /\ first' = [first EXCEPT !.runs = 2,
                              !.response = LastResponse,
                              !.ip = ip,
                              !.cells = Cells]

IdemNext ==
    \/ FirstLookup(Undefined)
    \/ SecondLookup(Undefined)
    \/ \E c \in Calls, message \in Rejections :
           FetchRejects(c, message) /\ UNCHANGED first
    \/ \E c \in Calls, status \in Statuses :
           FetchResponds(c, status) /\ UNCHANGED first
    \/ \E c \in Calls, message \in Rejections :
           TextRejects(c, message) /\ UNCHANGED first
    \/ \E c \in Calls, text \in GeoBodies :
           TextSettles(c, text) /\ UNCHANGED first

IdemSpec == IdemInit /\ [][IdemNext]_vars

-----------------------------------------------------------------------------
(* Vocabulary of the claims *)

\* The last step ended an invocation: nothing of it remains in flight.
LastCompleted == last.id > 0 /\ calls[last.id].pc = "done"

\* The invocation of the last step never overlapped another one in flight.
LastAlone == last.id > 0 /\ calls[last.id].alone

\* The last step handled the body of a geolocation response.
GeoAnswered == last.kind = "textSettled"
GeoRejected == GeoAnswered /\ ~ResOk(last.status)
GeoAccepted == GeoAnswered /\ ResOk(last.status)

\* The last step handled a detection body that parsed.
Detected == last.kind = "jsonSettled" /\ JSONparse(last.body).ok
DetectedIp == JSONparse(last.body).val.ip
DetectedUsable ==
    Detected /\ JSONparse(last.body).val.hasIp /\ DetectedIp # Empty

-----------------------------------------------------------------------------
(* C1 *)

\* C1: in every reachable state, after any sequence of invocations and
\* settlements, error and result are never both set, and both are empty
\* whenever loading is true.
C1_ErrorResultExclusive ==
    /\ ~(error # "" /\ result # JsNull)
    /\ loading => (error = "" /\ result = JsNull)

\* A second invocation, started after the first one had ended, got a
\* response that is an error: the error is set and the result is empty.
C1_Witness ==
    /\ last.id = 2
    /\ calls[1].pc = "done"
    /\ GeoRejected
    /\ ~loading
    /\ error # ""
    /\ result = JsNull

-----------------------------------------------------------------------------
(* C2 *)

\* C2: every completed lookup or useMyIP invocation leaves the session in
\* Error (error non-empty, error panel shown) or in Success (result set,
\* result panel shown), never in the Idle empty-prompt state.
C2_EndsInErrorOrSuccess ==
    LastCompleted =>
        \/ error # "" /\ ShowError
        \/ result # JsNull /\ ShowResult

-----------------------------------------------------------------------------
(* C3 *)

\* C3: provided every request eventually settles, whenever loading is true
\* it eventually becomes false again, on every path (success, handled
\* error, unexpected exception).
C3_LoadingEventuallyClears == loading ~> ~loading

\* An invocation ended by the rejection of res.text() (an exception the
\* code does not throw itself), with loading cleared.
C3_Witness ==
    /\ LastCompleted
    /\ last.kind = "textRejected"
    /\ ~loading

-----------------------------------------------------------------------------
(* C4 *)

\* C4: every invocation clears error and result in the step that sets
\* loading, and from that step until its own request settles the view never
\* shows an error or a result produced by an earlier invocation.
C4_NoStaleView ==
    /\ (last.kind \in {"lookupIssued", "useMyIP"} \/ last.url.to = "geo") =>
            (loading /\ error = "" /\ result = JsNull)
    /\ \A c \in Calls :
            InFlight(c) =>
                /\ ~(ShowError /\ writer.error \in 1..(c - 1))
                /\ ~(ShowResult /\ writer.result \in 1..(c - 1))

\* The Lookup button was clicked after an earlier invocation had ended:
\* the request is issued with loading set and error and result empty.
C4_Witness ==
    /\ last.kind = "lookupIssued"
    /\ last.id = 2
    /\ calls[1].pc = "done"
    /\ InFlight(2)
    /\ ShowLoading
    /\ error = ""
    /\ result = JsNull

-----------------------------------------------------------------------------
(* The outcome of a settlement *)

\* What the step recorded in `last` produces when its invocation runs with
\* no other one: the cells as its start left them, then its settlement.
AloneOutcome ==
    CASE last.kind = "textSettled" ->
            OnText(Start(Cells), last.status, last.body)
      [] last.kind \in {"fetchRejected", "textRejected"} ->
            OnLookupRejected(Start(Cells), last.body)
      [] last.kind \in {"detectRejected", "jsonRejected"} ->
            OnDetectRejected(Start(Cells), last.body)
      [] last.kind = "jsonSettled" ->
            OnDetectRejected(Start(Cells),
                             IF JSONparse(last.body).ok
                             THEN CouldNotDetermine
                             ELSE JSONparse(last.body).msg)
      [] OTHER -> Cells

-----------------------------------------------------------------------------
(* C6 *)

\* The last step was the invocation of onLookup by the user interface.
LookupInvoked == last.kind \in {"lookupIssued", "lookupEmpty"}

\* The address that invocation resolved: its argument, else the field.
ResolvedAddress == IF last.arg.given THEN last.arg.v ELSE last.prevIp

\* C6: a lookup whose resolved address (explicit argument, else the
\* address field) is empty issues no network request and ends with
\* error = "Please enter an IP or use 'Use my IP'.", result empty and
\* loading false.
C6_EmptyLookupStaysLocal ==
    (LookupInvoked /\ ResolvedAddress = Empty) =>
        /\ error = "Please enter an IP or use 'Use my IP'."
        /\ result = JsNull
        /\ ~loading
        /\ last.url = NoUrl
        /\ calls[last.id].geoReqs = 0
        /\ calls[last.id].pc = "done"

\* onLookup() was called while the address field was empty.
C6_Witness ==
    /\ last.kind = "lookupEmpty"
    /\ last.arg = Undefined
    /\ last.prevIp = Empty
    /\ ip = Empty
    /\ error = PleaseEnter
    /\ ~loading

-----------------------------------------------------------------------------
(* C7 *)

\* C7: for every non-2xx response the stored error is the error field of
\* the JSON body if the body parses and has one, else the raw body text,
\* else (empty text) "Request failed (<status>)"; no result is stored.
C7_ThreeTierFallback ==
    GeoRejected =>
        LET e == JSONparse(last.body)
        IN  /\ error = IF e.ok /\ e.val.hasError THEN e.val.error
                       ELSE IF last.body # "" THEN last.body
                       ELSE RequestFailed(last.status)
            /\ writer.result # last.id
            /\ LastAlone => result = JsNull

\* C7 as amended: the error field is used only when it is non-empty; a
\* body whose error field is empty falls back to the raw body text.
C7_ThreeTierFallbackNonEmptyField ==
    GeoRejected =>
        LET e == JSONparse(last.body)
        IN  /\ error = IF e.ok /\ e.val.hasError /\ e.val.error # ""
                       THEN e.val.error
                       ELSE IF last.body # "" THEN last.body
                       ELSE RequestFailed(last.status)
            /\ writer.result # last.id
            /\ LastAlone => result = JsNull

\* A 500 response with body {"error":""} was handled: the raw text shows.
C7_Witness ==
    /\ GeoRejected
    /\ last.status = 500
    /\ last.body = "{\"error\":\"\"}"
    /\ error = "{\"error\":\"\"}"

-----------------------------------------------------------------------------
(* C8 *)

-----------------------------------------------------------------------------
(* C9 *)

\* C9: when the detection body has no usable ip (absent or empty), useMyIP
\* ends with error = "Could not determine your public IP", loading false
\* and the address field unchanged, result is empty, and the invocation
\* issues no geolocation request.
C9_NoUsableIp ==
    (Detected /\ ~DetectedUsable) =>
        /\ error = "Could not determine your public IP"
        /\ ~loading
        /\ ip = last.prevIp
        /\ last.url = NoUrl
        /\ calls[last.id].geoReqs = 0
        /\ calls[last.id].pc = "done"
        /\ writer.result # last.id
        /\ LastAlone => result = JsNull

\* Detection answered {} while the address field held an address.
C9_Witness ==
    /\ Detected
    /\ last.body = BodyNoFields
    /\ ip = Ip8888
    /\ error = CouldNotDetermine

-----------------------------------------------------------------------------
(* C10 *)

\* The last step was the end of the onLookup that onUseMyIP called.
InnerLookupEnded ==
    /\ last.kind \in {"fetchRejected", "textRejected", "textSettled"}
    /\ calls[last.id].op = "useMyIP"

\* C10: when detection succeeds, the address field holds the detected
\* address when the geolocation request is issued, the request carries the
\* detected address, and the outcome of that request is the one onLookup
\* alone produces for the same response: onUseMyIP, when it resumes,
\* leaves error and result as onLookup stored them, with loading false.
C10_DetectedAddressLookedUp ==
    /\ [](DetectedUsable =>
            /\ ip = DetectedIp
            /\ last.url = [to |-> "geo",
                           query |-> encodeURIComponent(DetectedIp)]
            /\ calls[last.id].pc = "fetch"
            /\ calls[last.id].geoReqs = 1
            /\ loading /\ error = "" /\ result = JsNull)
    /\ []((InnerLookupEnded /\ LastAlone) =>
            /\ Cells = AloneOutcome
            /\ Resuming(last.id))
    /\ [][last'.kind = "resumed" =>
            /\ Resuming(last'.id)
            /\ calls'[last'.id].pc = "done"
            /\ error' = error /\ result' = result /\ ip' = ip
            /\ ~loading']_vars

\* Detection answered with an address other than the one in the field.
C10_Witness ==
    /\ DetectedUsable
    /\ last.prevIp = Ip8888
    /\ ip = Ip2001
    /\ last.url.query # encodeURIComponent(Ip8888)

-----------------------------------------------------------------------------
(* C11 *)

\* The last step was the failure of the detection request itself: fetch()
\* rejected, r.json() rejected, or the body did not parse.
DetectionFailed ==
    \/ last.kind \in {"detectRejected", "jsonRejected"}
    \/ last.kind = "jsonSettled" /\ ~JSONparse(last.body).ok
DetectionFailureMessage ==
    IF last.kind = "jsonSettled" THEN JSONparse(last.body).msg ELSE last.body

\* C11: when the detection request of useMyIP itself fails (transport
\* failure or unparseable body), useMyIP ends with error equal to the
\* failure's message, or "Could not fetch your public IP" when the failure
\* carries no message, with result empty and loading false, and no
\* geolocation request is issued.
C11_DetectionFailure ==
    DetectionFailed =>
        /\ error = IF DetectionFailureMessage # NoMessage
                   THEN DetectionFailureMessage
                   ELSE "Could not fetch your public IP"
        /\ ~loading
        /\ calls[last.id].op = "useMyIP"
        /\ calls[last.id].pc = "done"
        /\ calls[last.id].geoReqs = 0
        /\ last.url = NoUrl
        /\ writer.result # last.id
        /\ LastAlone => result = JsNull

\* The detection request rejected with an error that carries no message.
C11_Witness ==
    /\ last.kind = "detectRejected"
    /\ last.body = NoMessage
    /\ error = "Could not fetch your public IP"
    /\ LastAlone
    /\ result = JsNull

-----------------------------------------------------------------------------
(* C12 *)

\* The second of two runs in sequence has ended, and the collaborator
\* answered it as it answered the first.
SecondRunEnded == first.runs = 2 /\ last.id = 2 /\ LastCompleted
SameResponse == LastResponse = first.response

\* C12: running onLookup on the same address twice in sequence, with the
\* collaborator giving the same response both times, leaves after the
\* second run the session state (address, loading, error, result) the
\* first run left, whatever the state was before the first run.
C12_LookupIdempotent ==
    (SecondRunEnded /\ SameResponse) =>
        /\ ip = first.ip
        /\ Cells = first.cells

\* Both runs were answered 500 with a JSON error body.
C12_Witness ==
    /\ SecondRunEnded
    /\ SameResponse
    /\ last.kind = "textSettled"
    /\ last.status = 500
    /\ last.body = BodyRateLimited
    /\ error # ""

-----------------------------------------------------------------------------
(* C13 *)

\* The views the result section renders in the current state.
ViewsRendered ==
    {v \in {"skeleton", "error panel", "result panel", "prompt"} :
        \/ v = "skeleton" /\ ShowLoading
        \/ v = "error panel" /\ ShowError
        \/ v = "result panel" /\ ShowResult
        \/ v = "prompt" /\ ShowEmpty}

-----------------------------------------------------------------------------
(* C14 *)

\* C14: the validator is advisory only.  The Lookup button is disabled
\* exactly while loading or while the address is empty, whatever the
\* validator says of the address, and the Use my IP button exactly while
\* loading; a click on the Lookup button issues a geolocation request that
\* carries the address of the field.
C14_ValidatorAdvisory ==
    /\ LookupDisabled <=> (loading \/ ip = Empty)
    /\ UseMyIPDisabled <=> loading
    /\ LookupInvoked =>
            /\ last.kind = "lookupIssued"
            /\ last.prevIp # Empty
            /\ ip = last.prevIp
            /\ last.url = [to |-> "geo",
                           query |-> encodeURIComponent(last.prevIp)]

\* The Lookup button was clicked on an address the validator rejects.
C14_Witness ==
    /\ last.kind = "lookupIssued"
    /\ ip = NotAnIp
    /\ ShowHint
    /\ last.url = [to |-> "geo", query |-> encodeURIComponent(NotAnIp)]

-----------------------------------------------------------------------------
(* C15 *)

\* C15: choosing a quick-fill preset or editing the input changes only the
\* address field: loading, error and result are left unchanged and no
\* request is issued to either collaborator.
C15_EditsChangeOnlyAddress ==
    [][last'.kind \in {"input", "chip"} =>
            /\ loading' = loading
            /\ error' = error
            /\ result' = result
            /\ calls' = calls
            /\ ncalls' = ncalls
            /\ last'.url = NoUrl]_vars

\* A chip was chosen while the error of an ended invocation was displayed:
\* the field holds the preset and the error is still there.
C15_Witness ==
    /\ last.kind = "chip"
    /\ ip = Ip2001
    /\ error # ""
    /\ ShowError
    /\ calls[1].pc = "done"

-----------------------------------------------------------------------------
(* C16 *)

\* The last step handled the failure of a request.
RequestFailedStep ==
    \/ last.kind \in {"fetchRejected", "textRejected",
                      "detectRejected", "jsonRejected"}
    \/ GeoRejected
    \/ DetectionFailed

\* The last step was a click or a call of a handler by the user.
UserAction == last.kind \in {"lookupIssued", "lookupEmpty", "useMyIP"}

\* C16: no retries.  Each onLookup invocation issues at most one
\* geolocation request, each onUseMyIP invocation at most one detection
\* request followed by at most one geolocation request, and after a
\* request fails no further request is issued until a new user action.
C16_NoRetries ==
    /\ \A c \in Calls :
        /\ calls[c].op = "lookup" =>
                calls[c].geoReqs <= 1 /\ calls[c].ipifyReqs = 0
        /\ calls[c].op = "useMyIP" =>
                /\ calls[c].ipifyReqs = 1
                /\ calls[c].geoReqs <= 1
                /\ calls[c].pc \in {"detect", "json"} =>
                        calls[c].geoReqs = 0
    /\ RequestFailedStep =>
            /\ last.url = NoUrl
            /\ calls[last.id].pc \in {"done", "resume"}
    /\ last.kind = "resumed" => calls[last.id].pc = "done"
    /\ last.url # NoUrl => (UserAction \/ DetectedUsable)

\* The geolocation request of an onUseMyIP invocation was answered 500:
\* the invocation is about to end with the two requests it issued.
C16_Witness ==
    /\ GeoRejected
    /\ calls[last.id].op = "useMyIP"
    /\ calls[last.id].pc = "resume"
    /\ calls[last.id].ipifyReqs = 1
    /\ calls[last.id].geoReqs = 1

-----------------------------------------------------------------------------
(* C17 *)

\* The parts of s between the occurrences of sep.
RECURSIVE Split(_, _)
Split(s, sep) ==
    LET at == {i \in 1..Len(s) : s[i] = sep}
    IN  IF at = {} THEN <<s>>
        ELSE LET i == CHOOSE j \in at : \A k \in at : j <= k
             IN  <<SubSeq(s, 1, i - 1)>>
                    \o Split(SubSeq(s, i + 1, Len(s)), sep)

AllIn(g, set) == \A i \in 1..Len(g) : g[i] \in set

\* A group of 1 to 4 hex digits, and a group of more than 4.
HexGroup(g) == Len(g) \in 1..4 /\ AllIn(g, HexDigit)
LongHexGroup(g) == Len(g) > 4 /\ AllIn(g, HexDigit)

AllHexGroups(groups) == \A i \in 1..Len(groups) : HexGroup(groups[i])

\* Eight colon-separated groups of 1 to 4 hex digits.
FullForm(s) == Len(Split(s, ":")) = 8 /\ AllHexGroups(Split(s, ":"))

\* The places of s where `::` stands, and the explicit groups before and
\* after the place i.
DoubleColons(s) == {i \in 1..(Len(s) - 1) : s[i] = ":" /\ s[i + 1] = ":"}
GroupsOf(part) == IF part = << >> THEN << >> ELSE Split(part, ":")
GroupsBefore(s, i) == GroupsOf(SubSeq(s, 1, i - 1))
GroupsAfter(s, i) == GroupsOf(SubSeq(s, i + 2, Len(s)))

\* A single `::` with 1 to 7 explicit groups of 1 to 4 hex digits before
\* it, after it, or on both sides.
CompressedForm(s) ==
    /\ Cardinality(DoubleColons(s)) = 1
    /\ LET i == CHOOSE j \in DoubleColons(s) : TRUE
       IN  /\ AllHexGroups(GroupsBefore(s, i))
           /\ AllHexGroups(GroupsAfter(s, i))
           /\ Len(GroupsBefore(s, i)) + Len(GroupsAfter(s, i)) \in 1..7

HasLongHexGroup(s) ==
    \E i \in 1..Len(Split(s, ":")) : LongHexGroup(Split(s, ":")[i])

\* C17: the validator classifies as IPv6 every address that is eight
\* colon-separated groups of 1 to 4 hex digits, or a zero-compressed form
\* with a single `::` and 1 to 7 explicit groups of 1 to 4 hex digits
\* before it, after it, or on both sides; and it classifies as not-IPv6
\* any address containing a group of more than 4 hex digits.
C17_IPv6Classified ==
    /\ FullForm(ip) => isIPv6(ip)
    /\ CompressedForm(ip) => isIPv6(ip)
    /\ HasLongHexGroup(ip) => ~isIPv6(ip)

-----------------------------------------------------------------------------
(* C18 *)

DigitValue(ch) ==
    CASE ch = "0" -> 0 [] ch = "1" -> 1 [] ch = "2" -> 2 [] ch = "3" -> 3
      [] ch = "4" -> 4 [] ch = "5" -> 5 [] ch = "6" -> 6 [] ch = "7" -> 7
      [] ch = "8" -> 8 [] ch = "9" -> 9

\* The number a group of decimal digits resolves to.
RECURSIVE DecValue(_)
DecValue(g) ==
    IF g = << >> THEN 0
    ELSE 10 * DecValue(SubSeq(g, 1, Len(g) - 1)) + DigitValue(g[Len(g)])

DecGroup(g) == Len(g) >= 1 /\ AllIn(g, Digit)

\* Exactly four dot-separated groups of one, two or three decimal digits,
\* each resolving to a value in [0,255].
FourOctets(s) ==
    /\ Len(Split(s, ".")) = 4
    /\ \A i \in 1..4 :
        /\ DecGroup(Split(s, ".")[i])
        /\ Len(Split(s, ".")[i]) <= 3
        /\ DecValue(Split(s, ".")[i]) <= 255

HasGroupAbove255(s) ==
    \E i \in 1..Len(Split(s, ".")) :
        DecGroup(Split(s, ".")[i]) /\ DecValue(Split(s, ".")[i]) > 255

\* C18: the validator classifies as IPv4 every address made of exactly
\* four dot-separated groups of one, two or three decimal digits each
\* resolving to a value in [0,255], and classifies as not-IPv4 every
\* address with a group above 255 or with a number of groups other than
\* four.
C18_IPv4Classified ==
    /\ FourOctets(ip) => isIPv4(ip)
    /\ HasGroupAbove255(ip) => ~isIPv4(ip)
    /\ Len(Split(ip, ".")) # 4 => ~isIPv4(ip)

-----------------------------------------------------------------------------
(* C19 *)

ChainsInFlight == {c \in Calls : InFlight(c)}
ChainsRunning == {c \in Calls : InFlight(c) \/ Resuming(c)}

\* C19: when the handlers are started only by clicks on the enabled
\* buttons, at most one invocation is in flight at any time: loading is
\* true from the click until the last request of the invocation settles
\* (also between the detection and the geolocation request of onUseMyIP),
\* and both buttons are disabled while loading is true.
C19_OneChainInFlight ==
    /\ Cardinality(ChainsRunning) <= 1
    /\ \A c \in Calls : calls[c].alone
    /\ loading <=> ChainsInFlight # {}
    /\ loading => (LookupDisabled /\ UseMyIPDisabled)

\* An onUseMyIP invocation between its two requests: the detection has
\* settled and the geolocation request is in flight.
C19_Witness ==
    /\ last.kind = "jsonSettled"
    /\ calls[last.id].op = "useMyIP"
    /\ calls[last.id].pc = "fetch"
    /\ ChainsInFlight = {last.id}
    /\ loading
    /\ LookupDisabled
    /\ UseMyIPDisabled

-----------------------------------------------------------------------------
(* C20 *)

\* The last step was an edit of the field by the user.
FieldEdited == last.kind \in {"input", "chip"}

\* The last step ran code of onLookup: its invocation, or a settlement of
\* its request (also when onUseMyIP called it).
LookupStep ==
    \/ LookupInvoked
    \/ last.kind \in {"fetchRejected", "fetchResponded",
                      "textRejected", "textSettled"}

\* C20: onLookup never changes the address field, on any path (success,
\* remote rejection, transport failure, empty address); the field changes
\* only by user input, by a quick-fill preset, or by an onUseMyIP
\* invocation whose detection returned a non-empty address.
C20_AddressWriters ==
    /\ LookupStep => ip = last.prevIp
    /\ (last.id > 0 /\ ~FieldEdited /\ ~DetectedUsable) => ip = last.prevIp
    /\ DetectedUsable => (ip = DetectedIp /\ DetectedIp # Empty)

\* A lookup started by the Lookup button stored a result whose address is
\* not the one in the field: the field still holds its own address.
C20_Witness ==
    /\ GeoAccepted
    /\ calls[last.id].op = "lookup"
    /\ result = JSONparse(BodyGeo).val
    /\ result.ip = Ip8888
    /\ ip = Ip1111

====
